---- MODULE Spec2Model ----
(***************************************************************************)
(* Height-mapped hexagonal grid of hexes/src/map.rs: the coordinate        *)
(* converter (cube_round, cube_to_offset, offset_to_cube, axial_to_pixel), *)
(* the tile grid (HexMap::new), the hit tester (HexMap::pixel_to_hex) and  *)
(* the layer renderer (render_hex_map and its helpers).                    *)
(*                                                                         *)
(* Numbers.  The program computes in f32.  Pixel and camera inputs are     *)
(* whole pixels here, and every fractional quantity is an integer          *)
(* numerator over a stated denominator:                                    *)
(*   - position is kept in half tiles (the code sets -(width)/2.0);        *)
(*   - fractional axial coordinates are numerators over AxialDen;          *)
(*   - camera_pos is a numerator over 2*FLOOR_WIDTH (x), 2*FLOOR_VERT_STEP *)
(*     (y);                                                                *)
(*   - colour channels are percentages (0.55 is 55).                       *)
(* The f32 rounding error of the pixel -> axial conversion is a            *)
(* nondeterministic error of at most one unit of 1/AxialDen on each of     *)
(* q, r and s: where real arithmetic gives an exact tie (a pixel on a      *)
(* hexagon's edge) f32 may fall on either side.  cube_round itself is      *)
(* exact on its inputs (it rounds, and compares in f64).                   *)
(***************************************************************************)
EXTENDS Integers, Sequences, FiniteSets, TLC

\* ------------------------------------------------------------ consts.rs
FLOOR_WIDTH == 36
FLOOR_VERT_STEP == 28
FLOOR_DEPTH_STEP == 12
WALL_VERT_OFFSET == 12
WALL_VERT_STEP == 12
MAX_FLOOR_HEIGHT == 2
MAX_BRICK_HEIGHT == 4
DRAW_LAYER_FLOOR == 0
DRAW_LAYER_WALL == 1

\* map.rs literals
HALF_TILE == 18
VIEW_RADIUS == 20
PASSES == 3

\* ------------------------------------------------------------ bounds
MaxWidth == 2
MaxHeight == 2
MaxTiles == 4
MaxForcedTiles == 2
MaxCoord == 2
NoiseScale == 4
RoundDen == 6

VARIABLES
    tiles,        \* HexMap.tiles: sequence of [ground_height, wall_height]
    width,        \* HexMap.width
    height,       \* HexMap.height
    position,     \* HexMap.position, in half tiles: [x, y]
    tallest,      \* HexMap.tallest
    pc,           \* "constructed", "rendered", "panicked"; "round", "rounded" (cube_round alone)
    mouse_pos,    \* the pixel of the last pixel_to_hex call: <<x, y>>, or <<>>
    scan,         \* per layer of the last pixel_to_hex call, the offset coordinate converted
    selected_hex, \* the last pixel_to_hex result: <<>> (None) or <<x, y>>
    lookups,      \* the tile indices the last pixel_to_hex call read (0-based)
    render_lookups, \* the tile indices the last frame's loops read (0-based)
    camera,       \* camera.position of the last frame, in pixels: <<x, y>>, or <<>>
    view,         \* the last frame's [startx, endx, starty, endy], or <<>>
    draw_buffer,  \* the last frame's command pool: sequence of draw commands
    cube_in,      \* cube_round harness: the input numerators <<q, r, s>> over RoundDen
    cube_out      \* cube_round harness: <<>> or [q, r, s, fixed]

vars == <<tiles, width, height, position, tallest, pc, mouse_pos, scan, selected_hex,
          lookups, render_lookups, camera, view, draw_buffer, cube_in, cube_out>>

None == <<>>

Abs(n) == IF n < 0 THEN -n ELSE n

Max2(a, b) == IF a > b THEN a ELSE b

Min2(a, b) == IF a < b THEN a ELSE b

\* ------------------------------------------------- coordinate converter

\* f32::round of n/d (d > 0): nearest integer, halves away from zero
Round(n, d) ==
    IF n >= 0 THEN (2 * n + d) \div (2 * d)
    ELSE -((2 * (-n) + d) \div (2 * d))

\* |xi - x| for x = n/d, as a numerator over d
RoundDiff(n, d) == Abs(Round(n, d) * d - n)

CubeRoundBranchGe(q_diff, r_diff, s_diff) ==
    IF q_diff >= r_diff /\ q_diff >= s_diff THEN "q"
    ELSE IF r_diff >= s_diff THEN "r"
    ELSE "s"

\* the if / else-if / else of cube_round: the component that is recomputed
CubeRoundBranch(q_diff, r_diff, s_diff) ==
    IF q_diff > r_diff /\ q_diff > s_diff THEN "q"
    ELSE IF r_diff > s_diff THEN "r"
    ELSE "s"

cube_round_no_fix(q, r, s, d) ==
    [q |-> Round(q, d), r |-> Round(r, d), s |-> Round(s, d),
     fixed |-> CubeRoundBranch(RoundDiff(q, d), RoundDiff(r, d), RoundDiff(s, d))]

\* cube_round(q/d, r/d, s/d); "fixed" names the branch taken
cube_round(q, r, s, d) ==
    LET qi == Round(q, d)
        ri == Round(r, d)
        si == Round(s, d)
        fixed == CubeRoundBranch(RoundDiff(q, d), RoundDiff(r, d), RoundDiff(s, d))
    IN  CASE fixed = "q" -> [q |-> -ri - si, r |-> ri, s |-> si, fixed |-> fixed]
          [] fixed = "r" -> [q |-> qi, r |-> -qi - si, s |-> si, fixed |-> fixed]
          [] fixed = "s" -> [q |-> qi, r |-> ri, s |-> -qi - ri, fixed |-> fixed]

cube_to_offset_even(q, r) == <<q + (r + (r % 2)) \div 2, r>>

\* r & 1 is r % 2 (two's complement), and r - (r & 1) is even
cube_to_offset(q, r) == <<q + (r - (r % 2)) \div 2, r>>

offset_to_cube(off_x, off_y) ==
    LET x == off_x - (off_y - (off_y % 2)) \div 2
        z == off_y
    IN  <<x, -x - z, z>>

\* axial_to_pixel(q, r) for integer q, r: size_x * (sqrt(3) q + sqrt(3)/2 r) is
\* FLOOR_WIDTH * q + FLOOR_WIDTH/2 * r, and size_y * 3/2 * r is FLOOR_VERT_STEP * r
axial_to_pixel(q, r) ==
    <<FLOOR_WIDTH * q + (FLOOR_WIDTH \div 2) * r + HALF_TILE
          + (position.x * FLOOR_WIDTH) \div 2,
      FLOOR_VERT_STEP * r + HALF_TILE + (position.y * FLOOR_VERT_STEP) \div 2>>

\* denominator of the fractional axial coordinates
AxialDen == 2 * FLOOR_WIDTH * FLOOR_VERT_STEP * NoiseScale

\* map.rs 86-111 in real arithmetic: <<q, r>> as numerators over AxialDen.
\* b0 * (x / size_x) is x / FLOOR_WIDTH, b1 * (y / size_y) is -y / (2 FLOOR_VERT_STEP),
\* b3 * (y / size_y) is y / FLOOR_VERT_STEP.
LayerAxial(pos, h) ==
    LET height_offset == h * FLOOR_DEPTH_STEP
        x == pos[1] - HALF_TILE - (position.x * FLOOR_WIDTH) \div 2
        y == pos[2] - HALF_TILE - (position.y * FLOOR_VERT_STEP) \div 2 + height_offset
    IN  <<(2 * FLOOR_VERT_STEP * x - FLOOR_WIDTH * y) * NoiseScale,
          (2 * FLOOR_WIDTH * y) * NoiseScale>>

\* the f32 rounding error of one coordinate, in units of 1/AxialDen
Err == {-1, 0, 1}

\* the conversion of map.rs 111-115 with the errors e = <<eq, er, es>> on q, r and s
LayerHex(a, e) ==
    LET q == a[1] + e[1]
        r == a[2] + e[2]
        s == -r - q + e[3]
        c == cube_round(q, r, s, AxialDen)
    IN  cube_to_offset(c.q, c.r)

\* a = <<q, r>> is on no tie of cube_round: no coordinate is half way between two
\* integers and no two rounding errors are equal.  The exact values are multiples of
\* NoiseScale, so errors of one unit then change no comparison.
Robust(a) ==
    LET q_diff == RoundDiff(a[1], AxialDen)
        r_diff == RoundDiff(a[2], AxialDen)
        s_diff == RoundDiff(-a[2] - a[1], AxialDen)
    IN  /\ NoiseScale > 2
        /\ 2 * q_diff # AxialDen /\ 2 * r_diff # AxialDen /\ 2 * s_diff # AxialDen
        /\ q_diff # r_diff /\ q_diff # s_diff /\ r_diff # s_diff

\* map.rs 86-115: the offset coordinates layer h may convert pos to
LayerHexes(pos, h) ==
    LET a == LayerAxial(pos, h)
    IN  IF Robust(a) THEN { LayerHex(a, <<0, 0, 0>>) }
        ELSE { LayerHex(a, e) : e \in Err \X Err \X Err }

\* ------------------------------------------------------------ tile grid

HexTileData_new(h) == [ground_height |-> h, wall_height |-> h]

RECURSIVE NewTallestNoUpdate(_, _, _)
NewTallestNoUpdate(values, i, t) ==
    IF i > Len(values) THEN t
    ELSE NewTallestNoUpdate(values, i + 1, IF values[i] > t /\ t = 0 THEN values[i] ELSE t)

\* the running maximum of HexMap::new's loop, from draw i on
RECURSIVE NewTallest(_, _, _)
NewTallest(values, i, t) ==
    IF i > Len(values) THEN t
    ELSE NewTallest(values, i + 1, IF values[i] > t THEN values[i] ELSE t)

\* the sizes the model constructs grids of
GridSizes ==
    { wh \in (0..MaxWidth) \X (0..MaxHeight) : wh[1] * wh[2] <= MaxTiles }

\* the generator's draws for n tiles: gen_range(0, MAX_FLOOR_HEIGHT + 1) each
Draws(n) == [1..n -> 0..MAX_FLOOR_HEIGHT]

\* HexMap::new(w, h), the generator drawing `values`
HexMapNew(w, h, values) ==
    /\ tiles = [i \in 1..(w * h) |-> HexTileData_new(values[i])]
    /\ width = w
    /\ height = h
    /\ position = [x |-> -w, y |-> -h]
    /\ tallest = NewTallest(values, 1, 0)

\* ----------------------------------------------------------- hit tester

InGridInclusive(x, y) == ~(x < 0 \/ x > width \/ y < 0 \/ y > height)

\* map.rs 117: the coordinate is not rejected
InGrid(x, y) == ~(x < 0 \/ x >= width \/ y < 0 \/ y >= height)

LayerMatchesAny(tile_height, h) == TRUE

\* map.rs 124: the tile is a hit target at its own wall height only
LayerMatches(tile_height, h) == ~(tile_height # h)

IsBetterLower(tile_height, tallest_height) ==
    tallest_height = None \/ tile_height < tallest_height[1]

\* map.rs 127
IsBetter(tile_height, tallest_height) ==
    tallest_height = None \/ tile_height > tallest_height[1]

\* the loop of pixel_to_hex from layer h on; sc[h] is the offset coordinate layer h
\* converts the pixel to, tallest_height the Option<(u8, i32, i32)>, looked the
\* indices read so far.  An index past the end of tiles panics.
RECURSIVE pixel_to_hex_from(_, _, _, _)
pixel_to_hex_from(h, sc, tallest_height, looked) ==
    IF h > tallest
    THEN [result |-> IF tallest_height = None THEN None
                     ELSE <<tallest_height[2], tallest_height[3]>>,
          lookups |-> looked, panicked |-> FALSE]
    ELSE LET x == sc[h][1]
             y == sc[h][2]
             idx == width * y + x
         IN  IF ~InGrid(x, y)
             THEN pixel_to_hex_from(h + 1, sc, tallest_height, looked)
             ELSE IF idx < 0 \/ idx >= Len(tiles)
             THEN [result |-> None, lookups |-> looked \cup {idx}, panicked |-> TRUE]
             ELSE LET tile_height == tiles[idx + 1].wall_height
                  IN  IF ~LayerMatches(tile_height, h)
                      THEN pixel_to_hex_from(h + 1, sc, tallest_height, looked \cup {idx})
                      ELSE IF IsBetter(tile_height, tallest_height)
                      THEN pixel_to_hex_from(h + 1, sc, <<tile_height, x, y>>,
                                             looked \cup {idx})
                      ELSE pixel_to_hex_from(h + 1, sc, tallest_height, looked \cup {idx})

pixel_to_hex(sc) == pixel_to_hex_from(0, sc, None, {})

\* the conversions the layers h..=tallest may make of pos: functions from layer to
\* offset coordinate
RECURSIVE ScansFrom(_, _)
ScansFrom(pos, h) ==
    IF h > tallest THEN { [l \in {} |-> None] }
    ELSE { [l \in h..tallest |-> IF l = h THEN c ELSE rest[l]] :
               c \in LayerHexes(pos, h), rest \in ScansFrom(pos, h + 1) }

Scans(pos) == ScansFrom(pos, 0)

\* the centre pixel of tile (col, row): axial_to_pixel of its cube coordinate
CentrePixel(col, row) ==
    LET c == offset_to_cube(col, row) IN axial_to_pixel(c[1], c[3])

\* pointer pixels: a pixel far from the grid and, for each tile,
\* its centre, its centre as drawn (lifted by FLOOR_DEPTH_STEP per unit of wall
\* height), and the vertex of its hexagon right of the centre
MousePixels ==
    { <<5000, 5000>> }
    \cup UNION { LET c == CentrePixel(col, row)
                     lift == tiles[width * row + col + 1].wall_height * FLOOR_DEPTH_STEP
                 IN  { c, <<c[1], c[2] - lift>>, <<c[1] + FLOOR_WIDTH \div 2, c[2]>> }
                 : <<col, row>> \in (0..(width - 1)) \X (0..(height - 1)) }

\* ------------------------------------------------------- layer renderer

FLOOR == "hex-grass"
FLOOR_BRICK == "hex-stone-floor"
WALL == "hex-dirt"
WALL_BRICK == "hex-stone"

Color_rgba(r, g, b, a) == [r |-> r, g |-> g, b |-> b, a |-> a]

Color_WHITE == Color_rgba(100, 100, 100, 100)

Color_RED == Color_rgba(100, 0, 0, 100)

DrawCommand(texture, x, y, z, layer, color) ==
    [texture |-> texture, x |-> x, y |-> y, z |-> z, draw_layer |-> layer,
     draw_iso |-> TRUE, color |-> color]

create_floor_draw_cmd(x, y, h, color, texture) ==
    LET v == IF color = 0 THEN 55 ELSE IF color = 1 THEN 80 ELSE 100
    IN  DrawCommand(texture, x, y, h, DRAW_LAYER_FLOOR, Color_rgba(v, v, v, 100))

create_brick_floor_draw_cmd(x, y, h, color, texture) ==
    LET v == IF color = 1 THEN 65 ELSE IF color = 2 THEN 80
             ELSE IF color = 3 THEN 90 ELSE 100
    IN  DrawCommand(texture, x, y, h, DRAW_LAYER_FLOOR, Color_rgba(v, v, v, 100))

create_wall_draw_cmd(x, y, h, color, texture) ==
    LET v == IF color = 1 THEN 50 ELSE IF color = 2 THEN 70 ELSE 100
    IN  DrawCommand(texture, x, y, h, DRAW_LAYER_WALL, Color_rgba(v, v, v, 100))

create_wall_brick_draw_cmd(x, y, h, color, texture) ==
    LET v == IF color = 1 THEN 30 ELSE IF color = 2 THEN 55
             ELSE IF color = 3 THEN 70 ELSE 80
    IN  DrawCommand(texture, x, y, h, DRAW_LAYER_WALL, Color_rgba(v, v, v, 100))

\* the commands render_hex_top submits
render_hex_top(x, y, h, texture, color) ==
    LET draw_command == create_floor_draw_cmd(x, y, h * FLOOR_DEPTH_STEP, h, texture)
    IN  << IF color # Color_WHITE THEN [draw_command EXCEPT !.color = color]
           ELSE draw_command >>

\* the commands render_hex_brick_top submits
render_hex_brick_top(x, y, h, texture, color) ==
    LET draw_command == create_brick_floor_draw_cmd(x, y, h * FLOOR_DEPTH_STEP, h, texture)
    IN  << IF color # Color_WHITE THEN [draw_command EXCEPT !.color = color]
           ELSE draw_command >>

render_hex_walls_one_less(x, y, tile, wall_tex) ==
    LET h == tile.ground_height
        start_height == h * FLOOR_DEPTH_STEP - WALL_VERT_OFFSET
    IN  [k \in 1..(IF h > 0 THEN h - 1 ELSE 0) |->
            LET i == k - 1
                color == IF (h - i) % 2 = 1 THEN 1 ELSE 2
            IN  create_wall_draw_cmd(x, y, start_height - i * WALL_VERT_STEP, color, wall_tex)]

\* the commands render_hex_walls submits: i in 0..height
render_hex_walls(x, y, tile, wall_tex) ==
    LET h == tile.ground_height
        start_height == h * FLOOR_DEPTH_STEP - WALL_VERT_OFFSET
    IN  [k \in 1..h |->
            LET i == k - 1
                color == IF (h - i) % 2 = 1 THEN 1 ELSE 2
            IN  create_wall_draw_cmd(x, y, start_height - i * WALL_VERT_STEP, color, wall_tex)]

\* the commands render_hex_bricks submits: i in 1..=(wall_height - ground_height)
render_hex_bricks(x, y, tile, brick_tex) ==
    LET start_height == tile.ground_height * FLOOR_DEPTH_STEP - WALL_VERT_STEP
    IN  IF tile.wall_height > tile.ground_height
        THEN [i \in 1..(tile.wall_height - tile.ground_height) |->
                 create_wall_brick_draw_cmd(x, y, start_height + i * WALL_VERT_STEP,
                                            tile.ground_height + i, brick_tex)]
        ELSE << >>

\* map.rs 207-221: the pixel tile (x, y) is drawn at
DrawPos(x, y) ==
    << (IF y % 2 = 1 THEN x * FLOOR_WIDTH + FLOOR_WIDTH \div 2 ELSE x * FLOOR_WIDTH)
           + (position.x * FLOOR_WIDTH) \div 2,
       y * FLOOR_VERT_STEP + (position.y * FLOOR_VERT_STEP) \div 2 >>

SelectColorColumnOnly(x, y, selected) ==
    IF selected # None
    THEN IF x = selected[1] THEN Color_RED ELSE Color_WHITE
    ELSE Color_WHITE

\* map.rs 231-240
SelectColor(x, y, selected) ==
    IF selected # None
    THEN IF x = selected[1] /\ y = selected[2] THEN Color_RED ELSE Color_WHITE
    ELSE Color_WHITE

TopPassAlwaysFloor(x, y, tile, selected) ==
    LET d == DrawPos(x, y)
    IN  render_hex_top(d[1], d[2], tile.ground_height, FLOOR, SelectColor(x, y, selected))

\* map.rs 230-248: pass i == 2 for tile (x, y)
TopPass(x, y, tile, selected) ==
    LET d == DrawPos(x, y)
        color == SelectColor(x, y, selected)
    IN  IF tile.ground_height >= tile.wall_height
        THEN render_hex_top(d[1], d[2], tile.ground_height, FLOOR, color)
        ELSE render_hex_brick_top(d[1], d[2], tile.wall_height, FLOOR_BRICK, color)

PassCommandsTopFirst(i, x, y, tile, selected) ==
    LET d == DrawPos(x, y)
    IN  CASE i = 2 -> render_hex_walls(d[1], d[2], tile, WALL)
          [] i = 1 -> render_hex_bricks(d[1], d[2], tile, WALL_BRICK)
          [] i = 0 -> TopPass(x, y, tile, selected)

\* map.rs 224-248: what pass i submits for tile (x, y)
PassCommands(i, x, y, tile, selected) ==
    LET d == DrawPos(x, y)
    IN  CASE i = 0 -> render_hex_walls(d[1], d[2], tile, WALL)
          [] i = 1 -> render_hex_bricks(d[1], d[2], tile, WALL_BRICK)
          [] i = 2 -> TopPass(x, y, tile, selected)

\* the three nested loops of render_hex_map from iteration (y, i, x) on: buf is the
\* command pool so far, looked the tile indices read.  An index past the end of
\* tiles panics.
RECURSIVE RenderFrom(_, _, _, _, _, _, _)
RenderFrom(y, i, x, v, selected, buf, looked) ==
    IF y > v.endy THEN [buf |-> buf, lookups |-> looked, panicked |-> FALSE]
    ELSE IF i >= PASSES THEN RenderFrom(y + 1, 0, v.startx, v, selected, buf, looked)
    ELSE IF x > v.endx THEN RenderFrom(y, i + 1, v.startx, v, selected, buf, looked)
    ELSE LET idx == width * y + x
         IN  IF idx >= Len(tiles)
             THEN [buf |-> buf, lookups |-> looked \cup {idx}, panicked |-> TRUE]
             ELSE RenderFrom(y, i, x + 1, v, selected,
                             buf \o PassCommands(i, x, y, tiles[idx + 1], selected),
                             looked \cup {idx})

\* f32 as usize of n/d: saturating, truncating
AsUsize(n, d) == IF n < 0 THEN 0 ELSE n \div d

WindowIndexUnclamped(cp, d, delta, size) == AsUsize(Max2(cp + delta * d, 0), d)

\* map.rs 198-201: (camera_pos + delta).max(0.0).min(size - 1.0) as usize, camera_pos = cp/d
WindowIndex(cp, d, delta, size) ==
    AsUsize(Min2(Max2(cp + delta * d, 0), (size - 1) * d), d)

\* map.rs 196-201: camera.position / (FLOOR_WIDTH, FLOOR_VERT_STEP) - map.position
ViewWindow(cam) ==
    LET dx == 2 * FLOOR_WIDTH
        dy == 2 * FLOOR_VERT_STEP
        cx == 2 * cam[1] - position.x * FLOOR_WIDTH
        cy == 2 * cam[2] - position.y * FLOOR_VERT_STEP
    IN  [startx |-> WindowIndex(cx, dx, -VIEW_RADIUS, width),
         endx   |-> WindowIndex(cx, dx, VIEW_RADIUS, width),
         starty |-> WindowIndex(cy, dy, -VIEW_RADIUS, height),
         endy   |-> WindowIndex(cy, dy, VIEW_RADIUS, height)]

\* camera positions, in pixels: over the grid, and far right of and below it
Cameras == { <<0, 0>>, <<720, 574>> }

\* -------------------------------------------------------------- actions

grid == <<tiles, width, height, position, tallest>>

Running == pc \in {"constructed", "rendered"}

\* the state after HexMap::new(w, h)
Init ==
    /\ \E wh \in GridSizes : \E values \in Draws(wh[1] * wh[2]) :
           HexMapNew(wh[1], wh[2], values)
    /\ pc = "constructed"
    /\ mouse_pos = None /\ scan = None /\ selected_hex = None /\ lookups = {}
    /\ camera = None /\ view = None /\ draw_buffer = << >> /\ render_lookups = {}
    /\ cube_in = None /\ cube_out = None

\* one frame: render_hex_map with the pointer at mouse and the camera at cam
RenderHexMap ==
    /\ Running
    /\ \E mouse \in MousePixels : \E sc \in Scans(mouse) : \E cam \in Cameras :
           LET hit == pixel_to_hex(sc)
               v == ViewWindow(cam)
               frame == RenderFrom(v.starty, 0, v.startx, v, hit.result, << >>, {})
           IN  /\ mouse_pos' = mouse
               /\ scan' = sc
               /\ selected_hex' = hit.result
               /\ lookups' = hit.lookups
               /\ camera' = cam
               /\ IF hit.panicked
                  THEN /\ view' = None
                       /\ draw_buffer' = << >>
                       /\ render_lookups' = {}
                       /\ pc' = "panicked"
                  ELSE /\ view' = v
                       /\ draw_buffer' = frame.buf
                       /\ render_lookups' = frame.lookups
                       /\ pc' = IF frame.panicked THEN "panicked" ELSE "rendered"
    /\ UNCHANGED <<grid, cube_in, cube_out>>

Next == RenderHexMap

Spec == Init /\ [][Next]_vars

\* the grid of the spec's scenario: HexMap::new, then the tile at offset (0, 0) set
\* through its public fields to any heights of the data model
ForcedSizes ==
    { wh \in (1..MaxWidth) \X (1..MaxHeight) : wh[1] * wh[2] <= MaxForcedTiles }

InitForced ==
    /\ \E wh \in ForcedSizes : \E values \in Draws(wh[1] * wh[2]) :
       \E g \in 0..MAX_FLOOR_HEIGHT : \E w \in 0..MAX_BRICK_HEIGHT :
           /\ tiles = [i \in 1..(wh[1] * wh[2]) |->
                          IF i = 1 THEN [ground_height |-> g, wall_height |-> w]
                          ELSE HexTileData_new(values[i])]
           /\ width = wh[1]
           /\ height = wh[2]
           /\ position = [x |-> -wh[1], y |-> -wh[2]]
           /\ tallest = NewTallest(values, 1, 0)
    /\ pc = "constructed"
    /\ mouse_pos = None /\ scan = None /\ selected_hex = None /\ lookups = {}
    /\ camera = None /\ view = None /\ draw_buffer = << >> /\ render_lookups = {}
    /\ cube_in = None /\ cube_out = None

SpecForced == InitForced /\ [][Next]_vars

\* cube_round on its own: q and r are any multiples of 1/RoundDen within MaxCoord,
\* s = -q - r
InitRound ==
    /\ tiles = << >> /\ width = 0 /\ height = 0 /\ position = [x |-> 0, y |-> 0]
    /\ tallest = 0
    /\ pc = "round"
    /\ mouse_pos = None /\ scan = None /\ selected_hex = None /\ lookups = {}
    /\ camera = None /\ view = None /\ draw_buffer = << >> /\ render_lookups = {}
    /\ \E q \in (-MaxCoord * RoundDen)..(MaxCoord * RoundDen) :
       \E r \in (-MaxCoord * RoundDen)..(MaxCoord * RoundDen) :
           cube_in = <<q, r, -q - r>>
    /\ cube_out = None

CubeRound ==
    /\ pc = "round"
    /\ cube_out' = cube_round(cube_in[1], cube_in[2], cube_in[3], RoundDen)
    /\ pc' = "rounded"
    /\ UNCHANGED <<grid, mouse_pos, scan, selected_hex, lookups, render_lookups, camera,
                   view, draw_buffer, cube_in>>

NextRound == CubeRound

SpecRound == InitRound /\ [][NextRound]_vars

\* ------------------------------------------------------------ properties

\* a frame has run to its end
Rendered == pc = "rendered"

InBounds(c) == c[1] >= 0 /\ c[1] < width /\ c[2] >= 0 /\ c[2] < height

TileAt(c) == tiles[width * c[2] + c[1] + 1]

GridCoords == (0..(width - 1)) \X (0..(height - 1))

\* the layers of the last scan that gave a valid hit
ValidLayers ==
    { h \in DOMAIN scan : InBounds(scan[h]) /\ TileAt(scan[h]).wall_height = h }

MaxOf(S) == CHOOSE m \in S : \A n \in S : n <= m

\* C1: pixel_to_hex returns the coordinate converted at the greatest layer of
\* 0..=tallest that gives a valid hit (in bounds, tile's wall_height equal to the
\* layer), so no layer hits a tile taller than the returned one; it returns none
\* exactly when no layer gives a valid hit.
C1_GreatestValidLayer ==
    Rendered =>
        /\ DOMAIN scan = 0..tallest
        /\ (selected_hex = None) <=> (ValidLayers = {})
        /\ ValidLayers # {} =>
               /\ selected_hex = scan[MaxOf(ValidLayers)]
               /\ \A h \in ValidLayers :
                      TileAt(scan[h]).wall_height <= TileAt(selected_hex).wall_height

\* two layers hit different tiles and the taller tile is returned
C1_Witness ==
    /\ Rendered
    /\ \E h1, h2 \in ValidLayers :
           /\ h1 < h2
           /\ scan[h1] # scan[h2]
           /\ selected_hex = scan[h2]

\* C2 as claimed: the centre pixel of every tile, converted at the layer of the
\* tile's own wall_height, gives the tile's offset coordinate back.
C2_RoundTrip ==
    Rendered =>
        \A c \in GridCoords :
            mouse_pos = CentrePixel(c[1], c[2]) => scan[TileAt(c).wall_height] = c

\* C2 amended: the round trip recovers the coordinate at the layers 0 and 1; at a
\* layer of 2 or more the conversion leaves the tile's row (at layer 2 it gives the
\* row below, row + 1).
C2_RoundTripLowLayers ==
    Rendered =>
        \A c \in GridCoords :
            mouse_pos = CentrePixel(c[1], c[2]) =>
                LET h == TileAt(c).wall_height
                IN  /\ h <= 1 => scan[h] = c
                    /\ h = 2 => scan[h][2] = c[2] + 1

\* the centre of a tile of wall_height 1 in an odd row is converted at layer 1
C2_Witness ==
    /\ Rendered
    /\ \E c \in GridCoords :
           /\ c[2] % 2 = 1
           /\ mouse_pos = CentrePixel(c[1], c[2])
           /\ TileAt(c).wall_height = 1
           /\ scan[1] = c

\* C3: pixel_to_hex returns none when every layer converts the pixel to a coordinate
\* outside [0,width) x [0,height); every coordinate it returns is inside, and every
\* tile index it reads is below width * height.
C3_Bounds ==
    /\ pc # "panicked" \/ view # None
    /\ \A idx \in lookups : idx >= 0 /\ idx < width * height
    /\ Rendered =>
           /\ selected_hex # None => InBounds(selected_hex)
           /\ (\A h \in DOMAIN scan : ~InBounds(scan[h])) => selected_hex = None

\* a pixel of a grid with tiles that no layer converts to a coordinate of the grid
C3_Witness ==
    /\ Rendered
    /\ width > 0 /\ height > 0 /\ tallest > 0
    /\ \A h \in DOMAIN scan : ~InBounds(scan[h])
    /\ selected_hex = None

\* the row a draw command belongs to, from its pixel position
RowOf(cmd) == (cmd.y - (position.y * FLOOR_VERT_STEP) \div 2) \div FLOOR_VERT_STEP

\* the pass a draw command belongs to, from its texture
PassOf(cmd) ==
    CASE cmd.texture = WALL -> 0
      [] cmd.texture = WALL_BRICK -> 1
      [] cmd.texture \in {FLOOR, FLOOR_BRICK} -> 2

\* the commands of the frame drawn at tile c with a texture of T
CommandsAt(c, T) ==
    { k \in DOMAIN draw_buffer :
          /\ draw_buffer[k].x = DrawPos(c[1], c[2])[1]
          /\ draw_buffer[k].y = DrawPos(c[1], c[2])[2]
          /\ draw_buffer[k].texture \in T }

VisibleCoords == (view.startx..view.endx) \X (view.starty..view.endy)

\* C4: in a frame's draw sequence rows come in ascending order, and within a row
\* every wall command comes before every wall-brick command, which comes before
\* every top/floor command.
C4_Ordering ==
    Rendered =>
        \A i, j \in DOMAIN draw_buffer :
            i < j =>
                \/ RowOf(draw_buffer[i]) < RowOf(draw_buffer[j])
                \/ /\ RowOf(draw_buffer[i]) = RowOf(draw_buffer[j])
                   /\ PassOf(draw_buffer[i]) <= PassOf(draw_buffer[j])

\* two rows are drawn, and the tile at (0, 0) has walls, wall bricks and a top
C4_Witness ==
    /\ Rendered
    /\ view.starty < view.endy
    /\ tiles[1].ground_height >= 1
    /\ tiles[1].wall_height > tiles[1].ground_height
    /\ CommandsAt(<<0, 0>>, {WALL}) # {}
    /\ CommandsAt(<<0, 0>>, {WALL_BRICK}) # {}
    /\ CommandsAt(<<0, 0>>, {FLOOR, FLOOR_BRICK}) # {}

\* C5: a frame holds, for every visible tile of ground_height g and wall_height w,
\* exactly g wall commands, exactly max(0, w - g) wall-brick commands and exactly one
\* top command: a flat floor at depth g * FLOOR_DEPTH_STEP when g >= w, otherwise a
\* brick floor at depth w * FLOOR_DEPTH_STEP.
C5_Counts ==
    Rendered =>
        \A c \in VisibleCoords :
            LET g == TileAt(c).ground_height
                w == TileAt(c).wall_height
                tops == CommandsAt(c, {FLOOR, FLOOR_BRICK})
            IN  /\ Cardinality(CommandsAt(c, {WALL})) = g
                /\ Cardinality(CommandsAt(c, {WALL_BRICK})) = (IF w > g THEN w - g ELSE 0)
                /\ Cardinality(tops) = 1
                /\ \A k \in tops :
                       IF g >= w
                       THEN /\ draw_buffer[k].texture = FLOOR
                            /\ draw_buffer[k].z = g * FLOOR_DEPTH_STEP
                       ELSE /\ draw_buffer[k].texture = FLOOR_BRICK
                            /\ draw_buffer[k].z = w * FLOOR_DEPTH_STEP

\* the scenario g = 1, w = 3 at (0, 0): 1 wall, 2 wall bricks, 1 brick floor at depth 36
C5_Witness ==
    /\ Rendered
    /\ tiles[1] = [ground_height |-> 1, wall_height |-> 3]
    /\ <<0, 0>> \in VisibleCoords
    /\ Cardinality(CommandsAt(<<0, 0>>, {WALL})) = 1
    /\ Cardinality(CommandsAt(<<0, 0>>, {WALL_BRICK})) = 2
    /\ \E k \in CommandsAt(<<0, 0>>, {FLOOR_BRICK}) : draw_buffer[k].z = 36

\* C6 as claimed: for every grid HexMap::new makes, of width or height zero too, the
\* window indices of a frame are in [0, width-1] x [0, height-1] with start <= end, and
\* every tile index the frame reads is inside the tile array.
C6_WindowInGrid ==
    view # None =>
        /\ view.startx >= 0 /\ view.startx <= view.endx /\ view.endx <= width - 1
        /\ view.starty >= 0 /\ view.starty <= view.endy /\ view.endy <= height - 1
        /\ \A idx \in render_lookups : idx >= 0 /\ idx < Len(tiles)
        /\ pc # "panicked"

\* C7: for s = -q - r, cube_round returns integers that sum to zero.
C7_CubeInvariant ==
    pc = "rounded" => cube_out.q + cube_out.r + cube_out.s = 0

\* the three roundings alone do not sum to zero, the result does
C7_Witness ==
    /\ pc = "rounded"
    /\ Round(cube_in[1], RoundDen) + Round(cube_in[2], RoundDen)
           + Round(cube_in[3], RoundDen) # 0
    /\ cube_out.q + cube_out.r + cube_out.s = 0

\* the grid as HexMap::new leaves it
GridWellFormed ==
    /\ Len(tiles) = width * height
    /\ \A k \in DOMAIN tiles :
           /\ tiles[k].ground_height = tiles[k].wall_height
           /\ tiles[k].wall_height \in 0..MAX_FLOOR_HEIGHT
    /\ \A k \in DOMAIN tiles : tiles[k].wall_height <= tallest
    /\ IF tiles = << >> THEN tallest = 0
       ELSE \E k \in DOMAIN tiles : tiles[k].wall_height = tallest

\* C8: in every reachable state the grid holds width * height tiles, each with
\* ground_height = wall_height in 0..=MAX_FLOOR_HEIGHT, and tallest is the greatest
\* wall_height of the tiles; no frame (and no pixel_to_hex call in it) changes tiles,
\* width, height, position or tallest.
C8_GridInvariant ==
    /\ [](pc \in {"constructed", "rendered", "panicked"} => GridWellFormed)
    /\ [][grid' = grid]_vars

\* a frame has run on a grid whose greatest wall_height is not that of its first tile
C8_Witness ==
    /\ Rendered
    /\ Len(tiles) >= 2
    /\ tallest = 2
    /\ tiles[1].wall_height = 1
    /\ tiles[2].wall_height = 0

q_diff == RoundDiff(cube_in[1], RoundDen)

r_diff == RoundDiff(cube_in[2], RoundDen)

s_diff == RoundDiff(cube_in[3], RoundDen)

\* cube_out is the three roundings with component f alone recomputed from the others
OnlyRecomputed(f) ==
    LET qi == Round(cube_in[1], RoundDen)
        ri == Round(cube_in[2], RoundDen)
        si == Round(cube_in[3], RoundDen)
    IN  CASE f = "q" -> cube_out.q = -ri - si /\ cube_out.r = ri /\ cube_out.s = si
          [] f = "r" -> cube_out.q = qi /\ cube_out.r = -qi - si /\ cube_out.s = si
          [] f = "s" -> cube_out.q = qi /\ cube_out.r = ri /\ cube_out.s = -qi - ri

\* C9 as claimed: when two rounding errors are equal and the largest, q is recomputed
\* on a q/r tie and on a q/s tie, and r on an r/s tie.
C9_TieBreakQRS ==
    pc = "rounded" =>
        /\ (q_diff = r_diff /\ q_diff > s_diff) => cube_out.fixed = "q"
        /\ (q_diff = s_diff /\ q_diff > r_diff) => cube_out.fixed = "q"
        /\ (r_diff = s_diff /\ r_diff > q_diff) => cube_out.fixed = "r"

\* C9 amended: exactly one component is recomputed from the other two; q only when
\* its error is strictly the greatest; on a q/r tie r is recomputed, on a q/s tie s,
\* on an r/s tie s (the later correction wins a tie: s over r over q).
C9_TieBreakSRQ ==
    pc = "rounded" =>
        /\ OnlyRecomputed(cube_out.fixed)
        /\ (q_diff > r_diff /\ q_diff > s_diff) => cube_out.fixed = "q"
        /\ (q_diff = r_diff /\ q_diff > s_diff) => cube_out.fixed = "r"
        /\ (q_diff = s_diff /\ q_diff > r_diff) => cube_out.fixed = "s"
        /\ (r_diff = s_diff /\ r_diff > q_diff) => cube_out.fixed = "s"

\* a q/r tie where recomputing r and recomputing q give different results
C9_Witness ==
    /\ pc = "rounded"
    /\ q_diff = r_diff /\ q_diff > s_diff
    /\ OnlyRecomputed("r")
    /\ ~OnlyRecomputed("q")

\* the commands of the frame that carry the highlight colour
Highlighted == { k \in DOMAIN draw_buffer : draw_buffer[k].color = Color_RED }

\* C10: a command of a frame is highlighted if and only if it is a top/floor command
\* and its tile is the one pixel_to_hex returned for the frame's pointer position: at
\* most one command is highlighted, none when the hit test returns none or the tile is
\* outside the window, and no wall or wall-brick command is.
C10_Highlight ==
    Rendered =>
        /\ \A k \in DOMAIN draw_buffer :
               k \in Highlighted <=>
                   /\ selected_hex # None
                   /\ k \in CommandsAt(selected_hex, {FLOOR, FLOOR_BRICK})
        /\ Cardinality(Highlighted) <= 1
        /\ (selected_hex = None \/ selected_hex \notin VisibleCoords) => Highlighted = {}

\* one tile of a window of at least two rows is highlighted
C10_Witness ==
    /\ Rendered
    /\ view.starty < view.endy
    /\ Cardinality(Highlighted) = 1
    /\ \E k \in Highlighted : k \in CommandsAt(selected_hex, {FLOOR, FLOOR_BRICK})

====
